---- MODULE Spec2Model ----
(***************************************************************************)
(* Model of the embedded HTTP/1.1 server of ia-cpp                         *)
(* (third_party/crow_all.h, class crow::SimpleApp) together with the       *)
(* routes main.cpp registers on it.                                        *)
(*                                                                         *)
(* A byte is a one-character string, a byte string a sequence of bytes.    *)
(* Every action is one stretch of a worker thread between two blocking     *)
(* socket reads: the read itself (its result chosen by the environment)    *)
(* followed by everything handle_client does until it blocks again or      *)
(* returns.                                                                *)
(***************************************************************************)
EXTENDS Integers, Sequences, FiniteSets, TLC

(***************************************************************************)
(* Bytes                                                                   *)
(***************************************************************************)
SP == " "
HT == "\t"
CR == "\r"
LF == "\n"
CRLF == <<CR, LF>>

LowerAlpha == <<"a","b","c","d","e","f","g","h","i","j","k","l","m",
                "n","o","p","q","r","s","t","u","v","w","x","y","z">>
UpperAlpha == <<"A","B","C","D","E","F","G","H","I","J","K","L","M",
                "N","O","P","Q","R","S","T","U","V","W","X","Y","Z">>
Digits == <<"0","1","2","3","4","5","6","7","8","9">>

Min(a, b) == IF a <= b THEN a ELSE b

\* position of ch in the sequence t, 0 when absent
PosIn(ch, t) ==
  IF \E i \in 1..Len(t) : t[i] = ch
  THEN CHOOSE i \in 1..Len(t) : t[i] = ch /\ \A j \in 1..(i-1) : t[j] # ch
  ELSE 0

\* ::toupper on one byte
ToUpperCh(ch) ==
  LET Up(p) == IF p > 0 THEN UpperAlpha[p] ELSE ch
  IN Up(PosIn(ch, LowerAlpha))

\* SimpleApp::to_upper
to_upper(s) == [i \in 1..Len(s) |-> ToUpperCh(s[i])]

\* isspace in the "C" locale, over the modelled bytes
IsSpace(ch) == ch \in {SP, HT, CR, LF}

\* s.substr(pos) with a 0-based pos <= size
SubstrFrom(s, pos) == SubSeq(s, pos + 1, Len(s))

\* s.substr(0, n)
SubstrTo(s, n) == SubSeq(s, 1, Min(n, Len(s)))

\* s.find_first_not_of(set): 0-based index, or -1 for npos
FindFirstNotOf(s, set) ==
  IF \E i \in 1..Len(s) : s[i] \notin set
  THEN (CHOOSE i \in 1..Len(s) : s[i] \notin set /\ \A j \in 1..(i-1) : s[j] \in set) - 1
  ELSE -1

\* s.find_last_not_of(set): 0-based index, or -1 for npos
FindLastNotOf(s, set) ==
  IF \E i \in 1..Len(s) : s[i] \notin set
  THEN (CHOOSE i \in 1..Len(s) : s[i] \notin set /\ \A j \in (i+1)..Len(s) : s[j] \in set) - 1
  ELSE -1

\* s.find(ch): 0-based index, or -1 for npos
FindCh(s, ch) == PosIn(ch, s) - 1

\* s.find("\r\n"): 0-based index, or -1 for npos
FindCRLF(s) ==
  IF \E i \in 1..(Len(s)-1) : s[i] = CR /\ s[i+1] = LF
  THEN (CHOOSE i \in 1..(Len(s)-1) :
          /\ s[i] = CR /\ s[i+1] = LF
          /\ \A j \in 1..(i-1) : ~(s[j] = CR /\ s[j+1] = LF)) - 1
  ELSE -1

(***************************************************************************)
(* std::stoul                                                              *)
(***************************************************************************)
\* value of a hexadecimal digit, -1 for any other byte
HexVal(ch) ==
  LET Val(p) == IF p = 0 THEN -1 ELSE IF p <= 16 THEN p - 1 ELSE p - 7
  IN Val(PosIn(ch, <<"0","1","2","3","4","5","6","7","8","9",
                     "a","b","c","d","e","f","A","B","C","D","E","F">>))

\* value of a digit in the given base, -1 when ch is no digit of that base
DigitVal(ch, base) ==
  LET InBase(v) == IF v >= 0 /\ v < base THEN v ELSE -1
  IN InBase(HexVal(ch))

\* number of leading bytes of s that are digits of the base
DigitRun(s, base) ==
  IF \E i \in 1..Len(s) : DigitVal(s[i], base) < 0
  THEN (CHOOSE i \in 1..Len(s) :
          DigitVal(s[i], base) < 0 /\ \A j \in 1..(i-1) : DigitVal(s[j], base) >= 0) - 1
  ELSE Len(s)

RECURSIVE DigitsValue(_, _, _)
DigitsValue(s, base, acc) ==
  IF s = <<>> THEN acc
  ELSE DigitsValue(Tail(s), base, acc * base + DigitVal(Head(s), base))

\* std::stoul(str, nullptr, base): leading white space is skipped, one '+'
\* is accepted, base 16 accepts a 0x prefix, the longest run of digits is
\* converted and what follows it is ignored; no digit at all throws
\* std::invalid_argument ([ok |-> FALSE]).  The modelled requests carry no
\* '-' sign and no value of 2^64 or more.
stoul(str, base) ==
  LET Convert(s3, n) ==
        IF n = 0 THEN [ok |-> FALSE, value |-> 0]
        ELSE [ok |-> TRUE, value |-> DigitsValue(SubstrTo(s3, n), base, 0)]
      Digs(s3) == Convert(s3, DigitRun(s3, base))
      Prefix(s2) ==
        Digs(IF /\ base = 16 /\ Len(s2) >= 3 /\ s2[1] = "0" /\ s2[2] \in {"x", "X"}
                /\ DigitVal(s2[3], 16) >= 0
             THEN SubstrFrom(s2, 2) ELSE s2)
      Sign(s1) == Prefix(IF s1 # <<>> /\ s1[1] = "+" THEN Tail(s1) ELSE s1)
      Space(ws) == Sign(IF ws < 0 THEN <<>> ELSE SubstrFrom(str, ws))
  IN Space(FindFirstNotOf(str, {SP, HT, CR, LF}))

(***************************************************************************)
(* std::istringstream: the stream is its unread remainder `rest`.  After   *)
(* every extraction the stream is in a failed or end-of-file state exactly *)
(* when rest is empty, so no separate state flag is kept.                  *)
(***************************************************************************)
\* ss >> token : skips white space, extracts up to the next white space
ExtractToken(rest) ==
  LET Cut(s1, e) == [tok |-> SubstrTo(s1, e), rest |-> SubstrFrom(s1, e)]
      Token(s1) ==
        Cut(s1, IF \E i \in 1..Len(s1) : IsSpace(s1[i])
                THEN (CHOOSE i \in 1..Len(s1) :
                        IsSpace(s1[i]) /\ \A j \in 1..(i-1) : ~IsSpace(s1[j])) - 1
                ELSE Len(s1))
      Space(ws) == Token(IF ws < 0 THEN <<>> ELSE SubstrFrom(rest, ws))
  IN Space(FindFirstNotOf(rest, {SP, HT, CR, LF}))

\* std::getline(ss, line): fails at end of stream; otherwise extracts up to
\* and including the next LF (the LF is not stored) or up to the end.
GetLine(rest) ==
  IF rest = <<>> THEN [ok |-> FALSE, line |-> <<>>, rest |-> <<>>]
  ELSE LET Line(p) ==
             IF p < 0 THEN [ok |-> TRUE, line |-> rest, rest |-> <<>>]
             ELSE [ok |-> TRUE, line |-> SubstrTo(rest, p), rest |-> SubstrFrom(rest, p + 1)]
       IN Line(FindCh(rest, LF))

(***************************************************************************)
(* Request line and header loop of handle_client                           *)
(***************************************************************************)
K_CONTENT_LENGTH == <<"C","O","N","T","E","N","T","-","L","E","N","G","T","H">>
K_TRANSFER_ENCODING ==
  <<"T","R","A","N","S","F","E","R","-","E","N","C","O","D","I","N","G">>
K_EXPECT == <<"E","X","P","E","C","T">>
V_CHUNKED == <<"C","H","U","N","K","E","D">>
V_100_CONTINUE == <<"1","0","0","-","C","O","N","T","I","N","U","E">>

\* the two val.erase calls of the header loop
TrimValue(raw) ==
  LET Right(v1) == SubstrTo(v1, FindLastNotOf(v1, {CR, LF, SP}) + 1)
      Left(f) == Right(IF f < 0 THEN <<>> ELSE SubstrFrom(raw, f))
  IN Left(FindFirstNotOf(raw, {SP, HT}))

\* body of the header loop for one line; h holds content_length,
\* has_chunked, has_expect_continue and threw (std::stoul threw)
HeaderLine(line, h) ==
  LET Length(r) == IF r.ok THEN [h EXCEPT !.content_length = r.value]
                   ELSE [h EXCEPT !.threw = TRUE]
      Field(key, val, upval) ==
        IF key = K_CONTENT_LENGTH THEN Length(stoul(val, 10))
        ELSE IF key = K_TRANSFER_ENCODING
             THEN [h EXCEPT !.has_chunked = (upval = V_CHUNKED)]
        ELSE IF key = K_EXPECT
             THEN [h EXCEPT !.has_expect_continue = (upval = V_100_CONTINUE)]
        ELSE h
      Value(key, val) == Field(key, val, to_upper(val))
      Split(pos) ==
        IF pos < 0 THEN h
        ELSE Value(to_upper(SubstrTo(line, pos)), TrimValue(SubstrFrom(line, pos + 1)))
  IN Split(FindCh(line, ":"))

\* while (std::getline(ss, line) && line != "\r") { ... }
\* h.ss is the unread remainder of the stream, h.lines counts the lines the
\* loop body examined
RECURSIVE HeaderLoop(_)
HeaderLoop(h) ==
  LET Again(h2) == IF h2.threw THEN h2 ELSE HeaderLoop(h2)
      Body(g) ==
        IF ~g.ok THEN h
        ELSE IF g.line = <<CR>> THEN [h EXCEPT !.ss = g.rest]
        ELSE Again(HeaderLine(g.line, [h EXCEPT !.ss = g.rest, !.lines = @ + 1]))
  IN Body(GetLine(h.ss))

\* lines 184-209: the request line, then the header loop
ParseRequest(req_str) ==
  LET Version(m, p, v) ==
        HeaderLoop([method |-> m.tok, path |-> p.tok, version |-> v.tok,
                    ss |-> v.rest, lines |-> 0,
                    content_length |-> 0, has_chunked |-> FALSE,
                    has_expect_continue |-> FALSE, threw |-> FALSE])
      Path(m, p) == Version(m, p, ExtractToken(p.rest))
      Method(m) == Path(m, ExtractToken(m.rest))
  IN Method(ExtractToken(req_str))

(***************************************************************************)
(* read_chunked_body.  `at` is where the function stands: blocked in one   *)
(* of its four socket reads ("size", "data", "term", "final"), returned    *)
(* the decoded body ("done") or returned "" from a failure site ("fail").  *)
(***************************************************************************)
TempBufferSize == 1024

RECURSIVE ChunkLoop(_), ChunkData(_), ChunkTerm(_)

\* top of while (true): the chunk-size line (lines 107-140)
ChunkLoop(l) ==
  LET Size(buf, r) ==
        IF ~r.ok THEN [l EXCEPT !.buffer = buf, !.at = "fail"]
        ELSE IF r.value = 0
             THEN IF Len(buf) >= 2
                  THEN [l EXCEPT !.buffer = SubstrFrom(buf, 2), !.chunk_size = 0,
                                 !.at = "done"]
                  ELSE [l EXCEPT !.buffer = buf, !.chunk_size = 0, !.at = "final"]
        ELSE ChunkData([l EXCEPT !.buffer = buf, !.chunk_size = r.value,
                                 !.chunk_data = <<>>])
      Line(crlf_pos) ==
        IF crlf_pos < 0 THEN [l EXCEPT !.at = "size"]
        ELSE Size(SubstrFrom(l.buffer, crlf_pos + 2),
                  stoul(SubstrTo(l.buffer, crlf_pos), 16))
  IN Line(FindCRLF(l.buffer))

\* while (chunk_data.length() < chunk_size) (lines 144-161)
ChunkData(l) ==
  LET needed == l.chunk_size - Len(l.chunk_data)
  IN IF Len(l.chunk_data) < l.chunk_size /\ Len(l.buffer) < needed
     THEN [l EXCEPT !.chunk_data = @ \o l.buffer, !.buffer = <<>>, !.at = "data"]
     ELSE ChunkTerm(IF Len(l.chunk_data) >= l.chunk_size THEN l
                    ELSE [l EXCEPT !.chunk_data = @ \o SubstrTo(l.buffer, needed),
                                   !.buffer = SubstrFrom(l.buffer, needed)])

\* body += chunk_data, then the chunk terminator (lines 163-172)
ChunkTerm(l) ==
  IF Len(l.buffer) >= 2
  THEN ChunkLoop([l EXCEPT !.body = @ \o l.chunk_data, !.buffer = SubstrFrom(l.buffer, 2)])
  ELSE [l EXCEPT !.body = @ \o l.chunk_data, !.at = "term"]

\* lines 98-105: the unread remainder of the stream becomes the buffer
ChunkStart(l, ss) == ChunkLoop([l EXCEPT !.body = <<>>, !.buffer = ss])

\* the size argument of the read the function is blocked in
ChunkReadCap(l) ==
  CASE l.at = "size"  -> TempBufferSize
    [] l.at = "data"  -> Min(TempBufferSize, l.chunk_size - Len(l.chunk_data))
    [] l.at = "term"  -> 2
    [] l.at = "final" -> 2

\* the function resumes after its read returned the bytes `got`
\* (got = <<>> stands for a return value n <= 0)
ChunkResume(l, got) ==
  IF l.at = "final" THEN [l EXCEPT !.at = "done"]
  ELSE IF (l.at \in {"size", "data"} /\ Len(got) <= 0) \/ (l.at = "term" /\ Len(got) # 2)
       THEN [l EXCEPT !.at = "fail"]
  ELSE IF l.at = "data" THEN ChunkData([l EXCEPT !.buffer = @ \o got])
  ELSE ChunkLoop(IF l.at = "size" THEN [l EXCEPT !.buffer = @ \o got] ELSE l)

\* the value read_chunked_body returns
ChunkResult(l) == IF l.at = "fail" THEN <<>> ELSE l.body

(***************************************************************************)
(* Routes and handlers                                                     *)
(***************************************************************************)
M_GET == <<"G","E","T">>
M_POST == <<"P","O","S","T">>
M_OPTIONS == <<"O","P","T","I","O","N","S">>
P_HEALTH == <<"/","h","e","a","l","t","h">>
P_PREDICT == <<"/","p","r","e","d","i","c","t">>

\* index of the first route with that path, 0 for routes_.end()
FindRoute(routes, path) ==
  IF \E i \in 1..Len(routes) : routes[i].path = path
  THEN CHOOSE i \in 1..Len(routes) :
         routes[i].path = path /\ \A j \in 1..(i-1) : routes[j].path # path
  ELSE 0

\* add_route pushing a new Route for every registration
add_routeAppend(routes, path, method, h) ==
  Append(routes, [path |-> path, handlers |-> [m \in {method} |-> h]])

\* SimpleApp::add_route
add_route(routes, path, method, h) ==
  LET Set(rs, i) ==
        [rs EXCEPT ![i].handlers =
           [m \in (DOMAIN rs[i].handlers) \cup {method} |->
               IF m = method THEN h ELSE rs[i].handlers[m]]]
      Found(it) ==
        IF it = 0
        THEN Set(Append(routes, [path |-> path, handlers |-> <<>>]), Len(routes) + 1)
        ELSE Set(routes, it)
  IN Found(FindRoute(routes, path))

\* a Handler value: one of the lambdas of main(), by name, or a handler that
\* returns the fixed response `resp` whatever the request
NoResp == [code |-> 0, body |-> "", headers |-> <<>>]
Named(name) == [name |-> name, resp |-> NoResp]
Fixed(resp) == [name |-> "fixed", resp |-> resp]
NoHandler == Named("")

\* the three CROW_ROUTE registrations of main()
MainRoutes ==
  add_route(add_route(add_route(<<>>,
     P_HEALTH, "GET", Named("health")),
     P_PREDICT, "OPTIONS", Named("predict_options")),
     P_PREDICT, "POST", Named("predict_post"))

\* the request body main()'s POST handler accepts: {"x":1}
JsonX1 == <<"{", "\"", "x", "\"", ":", "1", "}">>

\* add_cors_headers with ALLOW_ORIGIN unset
CorsHeaders ==
  [k \in {"Access-Control-Allow-Headers", "Access-Control-Allow-Methods"} |->
     IF k = "Access-Control-Allow-Headers" THEN "Content-Type" ELSE "POST, OPTIONS"]

NoHeaders == <<>>

\* the handlers main() registers.  The POST handler is a collaborator of the
\* server: over the modelled request bodies its JSON validation accepts
\* exactly JsonX1, and the text of its error body stands for both of its
\* 400 branches.
Handler(h, body) ==
  CASE h.name = "fixed" -> h.resp
    [] h.name = "health" -> [code |-> 200, body |-> "ok", headers |-> NoHeaders]
    [] h.name = "predict_options" -> [code |-> 204, body |-> "", headers |-> CorsHeaders]
    [] h.name = "predict_post" ->
         IF body = JsonX1
         THEN [code |-> 200, body |-> "{\"note\":\"dummy\",\"y\":3.5}",
               headers |-> [k \in DOMAIN CorsHeaders \cup {"Content-Type"} |->
                              IF k = "Content-Type" THEN "application/json"
                              ELSE CorsHeaders[k]]]
         ELSE [code |-> 400, body |-> "{\"error\":\"x must be a number\"}",
               headers |-> CorsHeaders]

\* lines 261-263: the method token becomes an HTTPMethod
MethodOf(method) ==
  IF method = M_POST THEN "POST"
  ELSE IF method = M_OPTIONS THEN "OPTIONS"
  ELSE "GET"

\* Dispatch with a path match alone deciding between handler and 404
DispatchPathOnly(routes, method, path, body) ==
  LET Resolve(it, m) ==
        IF it = 0 \/ m \notin DOMAIN routes[it].handlers
        THEN [handler |-> NoHandler,
              resp |-> [code |-> 404, body |-> "Not Found", headers |-> NoHeaders]]
        ELSE [handler |-> routes[it].handlers[m],
              resp |-> Handler(routes[it].handlers[m], body)]
  IN Resolve(FindRoute(routes, path), MethodOf(method))

\* lines 256-270: [handler, resp]; handler is NoHandler when none is invoked
Dispatch(routes, method, path, body) ==
  LET Resolve(it, m) ==
        IF it = 0
        THEN [handler |-> NoHandler,
              resp |-> [code |-> 404, body |-> "Not Found", headers |-> NoHeaders]]
        ELSE IF m \in DOMAIN routes[it].handlers
             THEN [handler |-> routes[it].handlers[m],
                   resp |-> Handler(routes[it].handlers[m], body)]
             ELSE [handler |-> NoHandler,
                   resp |-> [code |-> 405, body |-> "Method Not Allowed",
                             headers |-> NoHeaders]]
  IN Resolve(FindRoute(routes, path), MethodOf(method))

(***************************************************************************)
(* Response serialization                                                  *)
(***************************************************************************)
DigitStr == <<"0","1","2","3","4","5","6","7","8","9">>

\* operator<< of a size_t: its decimal digits
RECURSIVE ToDec(_)
ToDec(n) == IF n < 10 THEN DigitStr[n + 1] ELSE ToDec(n \div 10) \o DigitStr[(n % 10) + 1]

\* the header names of the model in std::map iteration order
HeaderOrder == <<"Access-Control-Allow-Headers", "Access-Control-Allow-Methods",
                 "Access-Control-Allow-Origin", "Content-Length", "Content-Type">>

\* for (auto& kv : resp.headers) out << kv.first << ": " << kv.second
RECURSIVE MapLines(_, _)
MapLines(headers, order) ==
  IF order = <<>> THEN <<>>
  ELSE (IF Head(order) \in DOMAIN headers
        THEN <<[name |-> Head(order), value |-> headers[Head(order)]]>> ELSE <<>>)
       \o MapLines(headers, Tail(order))

\* lines 272-282: the message handed to write(), as status line, header
\* lines in output order and body
Serialize(resp) ==
  [code |-> resp.code, reason |-> "",
   lines |-> (IF "Content-Type" \notin DOMAIN resp.headers
              THEN <<[name |-> "Content-Type", value |-> "text/plain"]>> ELSE <<>>)
             \o <<[name |-> "Content-Length", value |-> ToDec(Len(resp.body))]>>
             \o MapLines(resp.headers, HeaderOrder),
   body |-> resp.body]

\* line 213
ContinueResp == [code |-> 100, reason |-> "Continue", lines |-> <<>>, body |-> ""]

\* line 224
ChunkedErrorResp ==
  [code |-> 400, reason |-> "Bad Request",
   lines |-> <<[name |-> "Content-Type", value |-> "text/plain"],
               [name |-> "Content-Length", value |-> "32"]>>,
   body |-> "Bad Request: invalid chunked body"]

\* line 247
IncompleteErrorResp ==
  [code |-> 400, reason |-> "Bad Request",
   lines |-> <<[name |-> "Content-Type", value |-> "text/plain"],
               [name |-> "Content-Length", value |-> "35"]>>,
   body |-> "Bad Request: incomplete body"]

(***************************************************************************)
(* The clients of the model: the byte streams they send                    *)
(***************************************************************************)
NConn == 2
MaxBody == 3
\* how many bytes short of its buffer a write() may return
MaxShort == 1
MaxChunks == 2
MaxChunkLen == 2

Conns == 1..NConn

M_PUT == <<"P","U","T">>
P_HEALTH_SLASH == <<"/","h","e","a","l","t","h","/">>
P_OTHER == <<"/","x">>
VERSION == <<"H","T","T","P","/","1",".","1">>
N_CONTENT_LENGTH == <<"C","o","n","t","e","n","t","-","L","e","n","g","t","h">>
N_TRANSFER_ENCODING ==
  <<"T","r","a","n","s","f","e","r","-","E","n","c","o","d","i","n","g">>
N_EXPECT == <<"E","x","p","e","c","t">>
LV_CHUNKED == <<"c","h","u","n","k","e","d">>
LV_100_CONTINUE == <<"1","0","0","-","c","o","n","t","i","n","u","e">>
Text == <<"W","i","k","i","p","e","d","i","a">>

ToLowerCh(ch) ==
  IF PosIn(ch, UpperAlpha) > 0 THEN LowerAlpha[PosIn(ch, UpperAlpha)] ELSE ch
ToLower(s) == [i \in 1..Len(s) |-> ToLowerCh(s[i])]

\* decimal and hexadecimal digits of a number, as bytes
RECURSIVE DecBytes(_)
DecBytes(n) == IF n < 10 THEN <<Digits[n + 1]>>
               ELSE DecBytes(n \div 10) \o <<Digits[(n % 10) + 1]>>
HexDigits == Digits \o SubSeq(LowerAlpha, 1, 6)
RECURSIVE HexBytes(_)
HexBytes(n) == IF n < 16 THEN <<HexDigits[n + 1]>>
               ELSE HexBytes(n \div 16) \o <<HexDigits[(n % 16) + 1]>>

\* one header line "Name: value", the name in lower case when asked
HeaderBytes(name, value, lower) ==
  (IF lower THEN ToLower(name) ELSE name) \o <<":", SP>> \o value

\* a chunked stream: the chunks cut from `data` with the given sizes, then
\* the zero-size chunk
RECURSIVE ChunkedBytes(_, _)
ChunkedBytes(data, sizes) ==
  IF sizes = <<>> THEN <<"0">> \o CRLF \o CRLF
  ELSE HexBytes(Head(sizes)) \o CRLF \o SubSeq(data, 1, Head(sizes)) \o CRLF
       \o ChunkedBytes(SubSeq(data, Head(sizes) + 1, Len(data)), Tail(sizes))

RECURSIVE SumSeq(_)
SumSeq(q) == IF q = <<>> THEN 0 ELSE Head(q) + SumSeq(Tail(q))

\* the chunk sizes of the modelled streams, 4/Wiki 5/pedia among them
ChunkSizes == UNION {[1..k -> 1..MaxChunkLen] : k \in 0..MaxChunks} \cup {<<4, 5>>}

\* the bytes a client sends for the request r
RequestBytes(r) ==
  r.method \o <<SP>> \o r.path \o <<SP>> \o VERSION \o r.pad \o CRLF
  \o (IF r.cl.present
      THEN HeaderBytes(N_CONTENT_LENGTH, r.cl.value, r.lower) \o CRLF ELSE <<>>)
  \o (IF r.te THEN HeaderBytes(N_TRANSFER_ENCODING, LV_CHUNKED, r.lower) \o CRLF ELSE <<>>)
  \o (IF r.ex THEN HeaderBytes(N_EXPECT, LV_100_CONTINUE, r.lower) \o CRLF ELSE <<>>)
  \o CRLF \o r.body

\* a Content-Length header: its value bytes and the number they spell
\* (-1 when they spell none)
NoCL == [present |-> FALSE, value |-> <<>>, num |-> 0]
CL(v, num) == [present |-> TRUE, value |-> v, num |-> num]

\* r.kind tells how r.body was built: "none", "length" (payload bytes),
\* "chunked" (well-formed chunked stream of payload), "badsize" (a chunk-size
\* line that is no number), "badterm" (a payload not followed by CRLF)
Req(method, path, pad, lower, cl, te, ex, kind, payload, body) ==
  [method |-> method, path |-> path, pad |-> pad, lower |-> lower, cl |-> cl,
   te |-> te, ex |-> ex, kind |-> kind, payload |-> payload, body |-> body]

Pads == {<<>>, <<SP>>}

RoutingReqs ==
  {Req(m, p, pad, FALSE, NoCL, FALSE, FALSE, "none", <<>>, <<>>) :
     m \in {M_GET, M_POST, M_OPTIONS, M_PUT},
     p \in {P_HEALTH, P_PREDICT, P_HEALTH_SLASH, P_OTHER},
     pad \in Pads}

LengthValues == {CL(DecBytes(k), k) : k \in 0..MaxBody}
                \cup {CL(<<"a","b","c">>, -1), CL(<<>>, -1)}

LengthReqs ==
  {Req(M_POST, P_PREDICT, pad, lower, v, FALSE, ex, "length",
       SubSeq(Text, 1, k), SubSeq(Text, 1, k)) :
     pad \in Pads, lower \in BOOLEAN, v \in LengthValues, ex \in BOOLEAN,
     k \in 0..MaxBody}
  \cup
  {Req(M_POST, P_PREDICT, pad, FALSE, CL(DecBytes(Len(JsonX1)), Len(JsonX1)),
       FALSE, FALSE,
       "length", JsonX1, JsonX1) : pad \in Pads}

ChunkedBodies ==
  {[kind |-> "chunked", payload |-> SubSeq(Text, 1, SumSeq(q)),
    body |-> ChunkedBytes(Text, q)] : q \in ChunkSizes}
  \cup
  {[kind |-> "badsize", payload |-> <<>>,
    body |-> <<"z","z">> \o CRLF \o ChunkedBytes(Text, q)] : q \in ChunkSizes}
  \cup
  {[kind |-> "badterm", payload |-> SubSeq(Text, 1, k),
    body |-> HexBytes(k) \o CRLF \o SubSeq(Text, 1, k) \o <<"X","Y">>
             \o ChunkedBytes(SubSeq(Text, k + 1, Len(Text)), <<>>)] :
     k \in 1..MaxChunkLen}

ChunkedReqs ==
  {Req(M_POST, P_PREDICT, pad, FALSE, cl, TRUE, ex, b.kind, b.payload, b.body) :
     pad \in Pads, cl \in {NoCL, CL(DecBytes(MaxBody), MaxBody)}, ex \in BOOLEAN,
     b \in ChunkedBodies}

Requests == RoutingReqs \cup LengthReqs \cup ChunkedReqs

\* length of the request line and header block, blank line included
HeadLen(r) == Len(RequestBytes(r)) - Len(r.body)

(***************************************************************************)
(* State                                                                   *)
(***************************************************************************)
VARIABLES
  alive,    \* the server process runs (FALSE after std::terminate)
  routes_,  \* SimpleApp::routes_
  req,      \* req[c]: the request client c set out to send
  wire,     \* wire[c]: bytes sent by client c that the server has not read
  peer,     \* peer[c]: "open", or the client has shut down its sending side
            \*   after sending everything ("shut") or before that ("cut")
  pc,       \* pc[c]: where the worker of connection c stands
  loc,      \* loc[c]: the locals of handle_client and read_chunked_body
  log       \* log[c]: reads, writes, handler calls and close on connection c

vars == <<alive, routes_, req, wire, peer, pc, loc, log>>

FirstBufferSize == 65536

\* what std::istringstream::gcount reports after the header loop: neither
\* operator>> nor std::getline(std::istream&, std::string&) counts
StreamGCount == 0

NUL == "NUL"

NoReq == Req(<<>>, <<>>, <<>>, FALSE, NoCL, FALSE, FALSE, "absent", <<>>, <<>>)

InitLoc ==
  [method |-> <<>>, path |-> <<>>, content_length |-> 0, has_chunked |-> FALSE,
   has_expect_continue |-> FALSE, lines |-> 0, body |-> <<>>, buffer |-> <<>>,
   chunk_size |-> 0, chunk_data |-> <<>>, already_read |-> 0, at |-> "none"]

ReadEv(site) == [ev |-> "read", site |-> site]
WriteEv(msg) == [ev |-> "write", msg |-> msg]
CallEv(h, body) == [ev |-> "call", handler |-> h, body |-> body]
CloseEv == [ev |-> "close"]
TerminateEv == [ev |-> "terminate"]

\* the log keeps one entry for a run of reads at the same site
RECURSIVE AddEvents(_, _)
AddEvents(lg, evs) ==
  IF evs = <<>> THEN lg
  ELSE IF lg # <<>> /\ Head(evs).ev = "read" /\ lg[Len(lg)] = Head(evs)
       THEN AddEvents(lg, Tail(evs))
       ELSE AddEvents(Append(lg, Head(evs)), Tail(evs))

(***************************************************************************)
(* handle_client, from one blocking read to the next                       *)
(***************************************************************************)
\* lines 256-284: dispatch, serialize, write, close
Finish(l, evs) ==
  LET Respond(d) ==
        [pc |-> "closed", loc |-> l, alive |-> TRUE,
         evs |-> evs \o (IF d.handler # NoHandler THEN <<CallEv(d.handler, l.body)>>
                         ELSE <<>>)
                     \o <<WriteEv(Serialize(d.resp)), CloseEv>>]
  IN Respond(Dispatch(routes_, l.method, l.path, l.body))

\* lines 221-228, once read_chunked_body has returned
ChunkOutcome(l, evs) ==
  LET Returned(l2) ==
        IF l2.body = <<>> /\ l2.content_length > 0
        THEN [pc |-> "closed", loc |-> l2, alive |-> TRUE,
              evs |-> evs \o <<WriteEv(ChunkedErrorResp), CloseEv>>]
        ELSE Finish(l2, evs)
  IN IF l.at \in {"done", "fail"}
     THEN Returned([l EXCEPT !.body = ChunkResult(l)])
     ELSE [pc |-> "chunk", loc |-> l, alive |-> TRUE, evs |-> evs]

\* the while loop of lines 243-253, up to its next read
LengthOutcome(l, evs) ==
  IF l.already_read < l.content_length
  THEN [pc |-> "body", loc |-> l, alive |-> TRUE, evs |-> evs]
  ELSE Finish(l, evs)

\* lines 231-240: body.resize, then the bytes of the stream that gcount
\* reports
LengthStart(l, ss) ==
  LET resized == [i \in 1..l.content_length |-> NUL]
      to_copy == Min(StreamGCount, l.content_length)
      copied  == SubstrTo(ss, to_copy)
  IN IF StreamGCount > 0
     THEN [l EXCEPT !.body = copied \o SubstrFrom(resized, Len(copied)),
                    !.already_read = Len(copied)]
     ELSE [l EXCEPT !.body = resized, !.already_read = 0]

\* lines 182-254 after the first read returned req_str
Start(req_str) ==
  LET Body(h, l0, evs0) ==
        IF h.threw
        THEN [pc |-> "threw", loc |-> l0, alive |-> FALSE,
              evs |-> <<ReadEv("first"), TerminateEv>>]
        ELSE IF h.has_chunked \/ h.content_length > 0
             THEN IF h.has_chunked THEN ChunkOutcome(ChunkStart(l0, h.ss), evs0)
                  ELSE LengthOutcome(LengthStart(l0, h.ss), evs0)
        ELSE Finish(l0, evs0)
      Header(h) ==
        Body(h,
             [InitLoc EXCEPT !.method = h.method, !.path = h.path,
                             !.content_length = h.content_length,
                             !.has_chunked = h.has_chunked,
                             !.has_expect_continue = h.has_expect_continue,
                             !.lines = h.lines],
             <<ReadEv("first")>>
               \o (IF h.has_expect_continue THEN <<WriteEv(ContinueResp)>> ELSE <<>>))
  IN Header(ParseRequest(req_str))

\* the number of bytes of a message handed to write()
RECURSIVE LinesLen(_)
LinesLen(lines) ==
  IF lines = <<>> THEN 0
  ELSE Len(Head(lines).name) + 2 + Len(Head(lines).value) + 2 + LinesLen(Tail(lines))

MsgLen(msg) ==
  9 + Len(ToDec(msg.code)) + 1 + Len(msg.reason) + 2 + LinesLen(msg.lines) + 2
  + Len(msg.body)

\* lines 214, 225, 248 and 283: write() is called once for each message and
\* its return value is discarded; `ret` is the number of bytes the socket
\* took, the j-th write of the stretch falling shorts[j] bytes short
RECURSIVE WriteReturns(_, _)
WriteReturns(evs, shorts) ==
  IF evs = <<>> THEN <<>>
  ELSE IF Head(evs).ev = "write"
       THEN <<[ev |-> "write", msg |-> Head(evs).msg,
               ret |-> MsgLen(Head(evs).msg) - Head(shorts)]>>
            \o WriteReturns(Tail(evs), Tail(shorts))
       ELSE <<Head(evs)>> \o WriteReturns(Tail(evs), shorts)

\* Apply with one log for all workers, as if the workers shared one
\* response buffer
ApplyShared(c, o, taken) ==
  /\ pc' = [pc EXCEPT ![c] = o.pc]
  /\ loc' = [loc EXCEPT ![c] = o.loc]
  /\ \E s1, s2 \in 0..MaxShort :
       log' = [log EXCEPT ![1] = AddEvents(@, WriteReturns(o.evs, <<s1, s2>>))]
  /\ alive' = o.alive
  /\ wire' = [wire EXCEPT ![c] = SubstrFrom(@, taken)]
  /\ UNCHANGED <<routes_, req, peer>>

Apply(c, o, taken) ==
  /\ pc' = [pc EXCEPT ![c] = o.pc]
  /\ loc' = [loc EXCEPT ![c] = o.loc]
  /\ \E s1, s2 \in 0..MaxShort :
       log' = [log EXCEPT ![c] = AddEvents(@, WriteReturns(o.evs, <<s1, s2>>))]
  /\ alive' = o.alive
  /\ wire' = [wire EXCEPT ![c] = SubstrFrom(@, taken)]
  /\ UNCHANGED <<routes_, req, peer>>

\* read() returned n <= 0: nothing left on the wire and the client is gone
AtEof(c) == wire[c] = <<>> /\ peer[c] # "open"

\* the lengths read() can return for a buffer of `cap` bytes
ReadLens(c, cap) == 1..Min(cap, Len(wire[c]))

(***************************************************************************)
(* Actions                                                                 *)
(***************************************************************************)
\* Accept by an acceptor that handles each connection itself before it
\* accepts the next
AcceptSerial(c) ==
  /\ alive
  /\ pc[c] = "pending"
  /\ \A d \in Conns : pc[d] \notin {"accepted", "body", "chunk"}
  /\ pc' = [pc EXCEPT ![c] = "accepted"]
  /\ UNCHANGED <<alive, routes_, req, wire, peer, loc, log>>

\* run(), lines 87-91: accept a connection and detach a worker for it
Accept(c) ==
  /\ alive
  /\ pc[c] = "pending"
  /\ pc' = [pc EXCEPT ![c] = "accepted"]
  /\ UNCHANGED <<alive, routes_, req, wire, peer, loc, log>>

\* run(), lines 88-89: accept fails for a connection (the client aborted it
\* before it was accepted); the loop goes on
AcceptFail(c) ==
  /\ alive
  /\ pc[c] = "pending"
  /\ pc' = [pc EXCEPT ![c] = "refused"]
  /\ UNCHANGED <<alive, routes_, req, wire, peer, loc, log>>

\* the client shuts down its sending side; what it has not sent by then is
\* never sent
ClientClose(c) ==
  /\ alive
  /\ pc[c] \in {"pending", "accepted", "body", "chunk"}
  /\ peer[c] = "open"
  /\ peer' = [peer EXCEPT ![c] = IF wire[c] = <<>> THEN "shut" ELSE "cut"]
  /\ wire' = [wire EXCEPT ![c] = <<>>]
  /\ UNCHANGED <<alive, routes_, req, pc, loc, log>>

\* lines 179-181 and on: the first read carries at least the request line
\* and the header block
FirstRead(c) ==
  /\ alive
  /\ pc[c] = "accepted"
  /\ \/ /\ AtEof(c)
        /\ Apply(c, [pc |-> "closed", loc |-> loc[c], alive |-> TRUE,
                     evs |-> <<ReadEv("first"), CloseEv>>], 0)
     \/ \E n \in ReadLens(c, FirstBufferSize) :
          /\ n >= HeadLen(req[c])
          /\ Apply(c, Start(SubstrTo(wire[c], n)), n)

\* ReadBody handing an incomplete body to the router when a read returns
\* zero or fewer bytes
ReadBodyLenient(c) ==
  /\ alive
  /\ pc[c] = "body"
  /\ \/ /\ AtEof(c)
        /\ Apply(c, Finish(loc[c], <<ReadEv("body")>>), 0)
     \/ \E n \in ReadLens(c, loc[c].content_length - loc[c].already_read) :
          LET l == loc[c]
              l2 == [l EXCEPT
                       !.body = SubstrTo(l.body, l.already_read) \o SubstrTo(wire[c], n)
                                \o SubstrFrom(l.body, l.already_read + n),
                       !.already_read = l.already_read + n]
          IN Apply(c, LengthOutcome(l2, <<ReadEv("body")>>), n)

\* line 244 and the rest of the loop body
ReadBody(c) ==
  /\ alive
  /\ pc[c] = "body"
  /\ \/ /\ AtEof(c)
        /\ Apply(c, [pc |-> "closed", loc |-> loc[c], alive |-> TRUE,
                     evs |-> <<ReadEv("body"), WriteEv(IncompleteErrorResp), CloseEv>>], 0)
     \/ \E n \in ReadLens(c, loc[c].content_length - loc[c].already_read) :
          LET l == loc[c]
              l2 == [l EXCEPT
                       !.body = SubstrTo(l.body, l.already_read) \o SubstrTo(wire[c], n)
                                \o SubstrFrom(l.body, l.already_read + n),
                       !.already_read = l.already_read + n]
          IN Apply(c, LengthOutcome(l2, <<ReadEv("body")>>), n)

\* the reads of read_chunked_body (lines 117, 137, 157, 170)
ReadChunk(c) ==
  /\ alive
  /\ pc[c] = "chunk"
  /\ \/ /\ AtEof(c)
        /\ Apply(c, ChunkOutcome(ChunkResume(loc[c], <<>>), <<ReadEv(loc[c].at)>>), 0)
     \/ \E n \in ReadLens(c, ChunkReadCap(loc[c])) :
          Apply(c, ChunkOutcome(ChunkResume(loc[c], SubstrTo(wire[c], n)),
                                <<ReadEv(loc[c].at)>>), n)

Next ==
  \E c \in Conns :
    \/ Accept(c)
    \/ AcceptFail(c)
    \/ ClientClose(c)
    \/ FirstRead(c)
    \/ ReadBody(c)
    \/ ReadChunk(c)

\* one client connects and sends any request of the family
Init ==
  /\ alive = TRUE
  /\ routes_ = MainRoutes
  /\ \E r \in Requests :
       /\ req = [c \in Conns |-> IF c = 1 THEN r ELSE NoReq]
       /\ wire = [c \in Conns |-> IF c = 1 THEN RequestBytes(r) ELSE <<>>]
  /\ peer = [c \in Conns |-> "open"]
  /\ pc = [c \in Conns |-> IF c = 1 THEN "pending" ELSE "idle"]
  /\ loc = [c \in Conns |-> InitLoc]
  /\ log = [c \in Conns |-> <<>>]

Spec == Init /\ [][Next]_vars

(***************************************************************************)
(* Vocabulary of the properties                                            *)
(***************************************************************************)
\* the worker of c has parsed a request line
Parsed(c) == pc[c] \in {"body", "chunk", "closed", "threw"} /\ loc[c].method # <<>>

Calls(c) == {i \in DOMAIN log[c] : log[c][i].ev = "call"}
Closes(c) == {i \in DOMAIN log[c] : log[c][i].ev = "close"}
\* writes other than the interim 100 Continue
FinalWrites(c) == {i \in DOMAIN log[c] : log[c][i].ev = "write" /\ log[c][i].msg.code # 100}
\* writes of a serialized response (the synthesized 400s carry a reason phrase)
RoutedWrites(c) == {i \in FinalWrites(c) : log[c][i].msg.reason = ""}

NumHeaders(r) ==
  (IF r.cl.present THEN 1 ELSE 0) + (IF r.te THEN 1 ELSE 0) + (IF r.ex THEN 1 ELSE 0)

\* C1: once the first read, holding the request line, the header lines and
\* the empty line, has been parsed, the header loop has examined every header
\* line and content_length, has_chunked and has_expect_continue are those of
\* the request's Content-Length, Transfer-Encoding and Expect headers.
C1_HeadersReflected ==
  \A c \in Conns :
    (Parsed(c) /\ req[c].cl.num >= 0) =>
      /\ loc[c].lines >= NumHeaders(req[c])
      /\ loc[c].content_length = req[c].cl.num
      /\ loc[c].has_chunked = req[c].te
      /\ loc[c].has_expect_continue = req[c].ex

\* C2: in Content-Length mode with N > 0, when the client has sent its N body
\* bytes, however they were split between the first read and later reads,
\* the worker hands the handler a body equal to the N bytes sent.
C2_LengthBodyIntact ==
  \A c \in Conns :
    ( /\ pc[c] = "closed" /\ Parsed(c)
      /\ ~loc[c].has_chunked /\ loc[c].content_length > 0
      /\ req[c].kind = "length" /\ Len(req[c].body) = loc[c].content_length
      /\ peer[c] # "cut" )
    => \E i \in Calls(c) : log[c][i].body = req[c].body

\* C3: when read_chunked_body has returned on a well-formed chunked stream
\* that the client sent completely, however its bytes were split over the
\* reads, it returned the concatenation of the chunk payloads.
C3_ChunkedDecoded ==
  \A c \in Conns :
    ( /\ req[c].kind = "chunked" /\ Parsed(c) /\ loc[c].has_chunked
      /\ loc[c].at \in {"done", "fail"} /\ peer[c] # "cut" )
    => loc[c].at = "done" /\ loc[c].body = req[c].payload

\* C4: after a failed chunked decoding the worker has written one 400
\* response, has closed the connection and has invoked no handler, with or
\* without a Content-Length header in the request.
C4_ChunkFailureGets400 ==
  \A c \in Conns :
    (pc[c] = "closed" /\ loc[c].at = "fail") =>
      /\ Calls(c) = {}
      /\ Cardinality(FinalWrites(c)) = 1
      /\ \A i \in FinalWrites(c) : log[c][i].msg.code = 400

\* C5: a request whose Content-Length value is no decimal number is answered
\* by the worker itself: the process keeps running, the connection is closed
\* and no handler is invoked.
C5_BadLengthRejected ==
  \A c \in Conns :
    (Parsed(c) /\ req[c].cl.present /\ req[c].cl.num < 0) =>
      /\ alive
      /\ pc[c] = "closed"
      /\ Calls(c) = {}

\* C7: a worker that has left handle_client has made exactly one
\* final-response write and then closed the connection exactly once.
C7_OneResponseThenClose ==
  \A c \in Conns :
    pc[c] \in {"closed", "threw"} =>
      /\ Cardinality(FinalWrites(c)) = 1
      /\ Cardinality(Closes(c)) = 1
      /\ log[c][Len(log[c])].ev = "close"
      /\ \A i \in FinalWrites(c) : i = Len(log[c]) - 1

MethodName(tok) ==
  CASE tok = M_GET -> "GET"
    [] tok = M_POST -> "POST"
    [] tok = M_OPTIONS -> "OPTIONS"
    [] OTHER -> "other"

PathRegistered(path) == \E i \in DOMAIN routes_ : routes_[i].path = path
RegisteredFor(path, m) ==
  \E i \in DOMAIN routes_ : routes_[i].path = path /\ m \in DOMAIN routes_[i].handlers
RegisteredHandler(path, m) ==
  routes_[CHOOSE i \in DOMAIN routes_ :
            routes_[i].path = path /\ m \in DOMAIN routes_[i].handlers].handlers[m]

\* C8: for a request with method GET, POST or OPTIONS that reaches routing,
\* the response written is the response of the handler registered for that
\* exact path and method; it is 405 Method Not Allowed when the path is
\* registered without that method and 404 Not Found when no route has the
\* path, and no handler runs in these two cases.
C8_Routing ==
  \A c \in Conns : \A i \in RoutedWrites(c) :
    req[c].method \in {M_GET, M_POST, M_OPTIONS} =>
      LET m   == MethodName(req[c].method)
          p   == req[c].path
          msg == log[c][i].msg
      IN /\ RegisteredFor(p, m) =>
              \E j \in Calls(c) :
                 /\ j < i
                 /\ log[c][j].handler = RegisteredHandler(p, m)
                 /\ msg = Serialize(Handler(log[c][j].handler, log[c][j].body))
         /\ (PathRegistered(p) /\ ~RegisteredFor(p, m)) =>
              msg.code = 405 /\ msg.body = "Method Not Allowed" /\ Calls(c) = {}
         /\ ~PathRegistered(p) =>
              msg.code = 404 /\ msg.body = "Not Found" /\ Calls(c) = {}

\* a GET on /predict, registered for OPTIONS and POST only, has been answered
C8_Witness ==
  \E c \in Conns :
    /\ RoutedWrites(c) # {}
    /\ req[c].method = M_GET /\ req[c].path = P_PREDICT
    /\ \A i \in RoutedWrites(c) : log[c][i].msg.code = 405

\* C9: a request whose method token is not GET, POST or OPTIONS is never
\* dispatched to a handler: it is answered 405 when its path is registered
\* and 404 when it is not.
C9_OtherMethodsNotDispatched ==
  \A c \in Conns : \A i \in RoutedWrites(c) :
    req[c].method \notin {M_GET, M_POST, M_OPTIONS} =>
      /\ Calls(c) = {}
      /\ log[c][i].msg.code = IF PathRegistered(req[c].path) THEN 405 ELSE 404

(***************************************************************************)
(* The serializer on the responses a handler may return: a GET route on    *)
(* /x is registered with a handler returning any response of a bounded     *)
(* family.                                                                 *)
(***************************************************************************)
HandlerBodies == {"", "ok", "0123456789"}
HandlerLengths == {"0", "2", "99"}

HandlerHeaders ==
  {NoHeaders, [k \in {"Content-Type"} |-> "application/json"]}
  \cup {[k \in {"Content-Length"} |-> v] : v \in HandlerLengths}
  \cup {[k \in {"Content-Length", "Content-Type"} |->
           IF k = "Content-Length" THEN v ELSE "application/json"] : v \in HandlerLengths}

Responses ==
  {[code |-> code, body |-> b, headers |-> h] :
     code \in {200, 404}, b \in HandlerBodies, h \in HandlerHeaders}

SerRequests ==
  {Req(M_GET, P_OTHER, pad, FALSE, NoCL, FALSE, FALSE, "none", <<>>, <<>>) : pad \in Pads}
  \cup {Req(M_POST, P_OTHER, <<SP>>, FALSE, CL(DecBytes(1), 1), FALSE, FALSE, "length",
            SubSeq(Text, 1, 1), SubSeq(Text, 1, 1)),
        Req(M_GET, P_OTHER, <<SP>>, FALSE, NoCL, TRUE, FALSE, "chunked",
            SubSeq(Text, 1, 1), ChunkedBytes(Text, <<1>>))}

InitSer ==
  /\ alive = TRUE
  /\ \E resp \in Responses : routes_ = add_route(MainRoutes, P_OTHER, "GET", Fixed(resp))
  /\ \E r \in SerRequests :
       /\ req = [c \in Conns |-> IF c = 1 THEN r ELSE NoReq]
       /\ wire = [c \in Conns |-> IF c = 1 THEN RequestBytes(r) ELSE <<>>]
  /\ peer = [c \in Conns |-> "open"]
  /\ pc = [c \in Conns |-> IF c = 1 THEN "pending" ELSE "idle"]
  /\ loc = [c \in Conns |-> InitLoc]
  /\ log = [c \in Conns |-> <<>>]

SpecSer == InitSer /\ [][Next]_vars

\* C10: every serialized response carries a Content-Length header, and every
\* Content-Length header in it has the byte length of the body as its value,
\* whatever Content-Length the handler supplied.
C10_ContentLengthIsBodySize ==
  \A c \in Conns : \A i \in RoutedWrites(c) :
    LET msg == log[c][i].msg
    IN /\ \E k \in DOMAIN msg.lines : msg.lines[k].name = "Content-Length"
       /\ \A k \in DOMAIN msg.lines :
            msg.lines[k].name = "Content-Length" =>
              msg.lines[k].value = ToDec(Len(msg.body))

(***************************************************************************)
(* Several connections at once: every client sends one of a few requests   *)
(* and the workers interleave at their socket reads.                       *)
(***************************************************************************)
ConcRequests ==
  {Req(M_GET, P_HEALTH, <<>>, FALSE, NoCL, FALSE, FALSE, "none", <<>>, <<>>),
   Req(M_GET, P_OTHER, <<>>, FALSE, NoCL, FALSE, FALSE, "none", <<>>, <<>>),
   Req(M_POST, P_PREDICT, <<SP>>, FALSE, CL(<<"a","b","c">>, -1), FALSE, FALSE,
       "length", <<>>, <<>>),
   Req(M_POST, P_PREDICT, <<SP>>, FALSE, CL(DecBytes(1), 1), FALSE, FALSE,
       "length", SubSeq(Text, 1, 1), SubSeq(Text, 1, 1)),
   Req(M_POST, P_PREDICT, <<SP>>, FALSE, NoCL, TRUE, FALSE,
       "badsize", <<>>, <<"z","z">> \o CRLF),
   Req(M_POST, P_PREDICT, <<SP>>, FALSE, NoCL, TRUE, FALSE,
       "chunked", <<>>, ChunkedBytes(Text, <<>>))}

InitConc ==
  /\ alive = TRUE
  /\ routes_ = MainRoutes
  /\ req \in [Conns -> ConcRequests]
  /\ wire = [c \in Conns |-> RequestBytes(req[c])]
  /\ peer = [c \in Conns |-> "open"]
  /\ pc = [c \in Conns |-> "pending"]
  /\ loc = [c \in Conns |-> InitLoc]
  /\ log = [c \in Conns |-> <<>>]

SpecConc == InitConc /\ [][Next]_vars

\* the request carries one of the errors a worker is to recover from
Erroneous(r) ==
  \/ r.cl.present /\ r.cl.num < 0
  \/ r.kind \in {"badsize", "badterm"}
  \/ ~RegisteredFor(r.path, MethodName(r.method))

\* C6: a framing or routing error on one connection stays inside its worker:
\* once that worker has parsed the erroneous request, the process still runs,
\* so the acceptor and the workers of the other connections that are
\* waiting or under way can go on.
C6_ErrorsStayLocal ==
  \A c \in Conns : \A d \in Conns \ {c} :
    ( /\ Parsed(c) /\ Erroneous(req[c])
      /\ pc[d] \in {"pending", "accepted", "body", "chunk"} )
    => alive

(***************************************************************************)
(* What reaches the client                                                 *)
(***************************************************************************)
\* C11: every final response written, the two 400 responses that
\* handle_client builds itself included, carries a Content-Length header
\* whose value is the number of body bytes written after the blank line.
C11_ResponsesWellFormed ==
  \A c \in Conns : \A i \in FinalWrites(c) :
    LET msg == log[c][i].msg
    IN /\ \E k \in DOMAIN msg.lines : msg.lines[k].name = "Content-Length"
       /\ \A k \in DOMAIN msg.lines :
            msg.lines[k].name = "Content-Length" =>
              msg.lines[k].value = ToDec(Len(msg.body))

\* the bytes of the final response the socket has taken on connection c
RECURSIVE TakenBytes(_)
TakenBytes(lg) ==
  IF lg = <<>> THEN 0
  ELSE (IF Head(lg).ev = "write" /\ Head(lg).msg.code # 100 THEN Head(lg).ret ELSE 0)
       + TakenBytes(Tail(lg))

\* C12: when the connection is closed after a final response, the socket
\* has taken every byte of that response: what one write call left over was
\* written by further write calls.
C12_ResponseFullyWritten ==
  \A c \in Conns : \A i \in FinalWrites(c) :
    Closes(c) # {} => TakenBytes(log[c]) = MsgLen(log[c][i].msg)

(***************************************************************************)
(* Framing                                                                 *)
(***************************************************************************)
NotRead(e) == e.ev # "read"

\* what the worker of c did besides reading, in order, write return values
\* left out
Deeds(c) ==
  LET d == SelectSeq(log[c], NotRead)
  IN [i \in DOMAIN d |-> IF d[i].ev = "write" THEN WriteEv(d[i].msg) ELSE d[i]]

\* C13: for a request with Transfer-Encoding: chunked and a valid
\* Content-Length whose well-formed chunked body has been decoded, the
\* handler call and the response are those of the same request without the
\* Content-Length header, the empty decoded body included.
C13_ChunkedTakesPrecedence ==
  \A c \in Conns :
    ( /\ pc[c] = "closed" /\ loc[c].has_chunked /\ loc[c].at = "done"
      /\ req[c].kind = "chunked" /\ req[c].cl.present /\ req[c].cl.num >= 0 )
    => Deeds(c) =
         ChunkOutcome([loc[c] EXCEPT !.content_length = 0],
                      IF loc[c].has_expect_continue THEN <<WriteEv(ContinueResp)>>
                      ELSE <<>>).evs

\* C14: in Content-Length mode, when a read returned zero or fewer bytes
\* before N body bytes were accumulated, that read is the worker's last: it
\* is followed by the write of one 400 response and the close, and no
\* handler is invoked.
C14_IncompleteBodyGets400 ==
  \A c \in Conns :
    ( /\ pc[c] = "closed" /\ ~loc[c].has_chunked /\ loc[c].content_length > 0
      /\ loc[c].already_read < loc[c].content_length )
    => LET n == Len(log[c])
       IN /\ n >= 3
          /\ log[c][n - 2] = ReadEv("body")
          /\ log[c][n - 1].ev = "write" /\ log[c][n - 1].msg.code = 400
          /\ log[c][n] = CloseEv
          /\ Calls(c) = {}
          /\ FinalWrites(c) = {n - 1}

\* a client has shut down after sending part of the body it announced, and
\* the worker has answered
C14_Witness ==
  \E c \in Conns :
    /\ pc[c] = "closed" /\ ~loc[c].has_chunked /\ loc[c].content_length > 1
    /\ loc[c].already_read > 0 /\ loc[c].already_read < loc[c].content_length
    /\ FinalWrites(c) # {}

\* writes of the interim 100 Continue
Continues(c) == {i \in DOMAIN log[c] : log[c][i].ev = "write" /\ log[c][i].msg.code = 100}
\* reads issued after the first one, to obtain body bytes
BodyReads(c) == {i \in DOMAIN log[c] : log[c][i].ev = "read" /\ log[c][i].site # "first"}

\* C15: once the worker has parsed the request and gone on to the body, it
\* has written the interim 100 Continue exactly once if the request has an
\* Expect: 100-continue header and not at all otherwise, and that write
\* precedes every read for body bytes and the final response.
C15_ContinueOnce ==
  \A c \in Conns :
    (Parsed(c) /\ pc[c] # "threw") =>
      /\ Cardinality(Continues(c)) = IF req[c].ex THEN 1 ELSE 0
      /\ \A i \in Continues(c) : \A j \in BodyReads(c) \cup FinalWrites(c) : i < j

(***************************************************************************)
(* Workers side by side                                                    *)
(***************************************************************************)
WellFormed(r) ==
  /\ r.kind \in {"none", "length", "chunked"}
  /\ r.cl.present => r.cl.num >= 0
  /\ r.kind = "length" => Len(r.body) = r.cl.num

AllDistinctWellFormed ==
  /\ \A c \in Conns : WellFormed(req[c])
  /\ \A c, d \in Conns : c # d => req[c] # req[d]

IsSuffix(w, b) == Len(w) <= Len(b) /\ w = SubSeq(b, Len(b) - Len(w) + 1, Len(b))

\* what the worker of c holds and has done comes from the request of c
OwnRequestOnly(c) ==
  /\ IsSuffix(wire[c], RequestBytes(req[c]))
  /\ Parsed(c) => loc[c].method = req[c].method /\ loc[c].path = req[c].path
  /\ \A k \in DOMAIN loc[c].body :
       loc[c].body[k] = NUL \/ \E j \in DOMAIN req[c].body : req[c].body[j] = loc[c].body[k]
  /\ \A i \in Calls(c) : log[c][i].body = loc[c].body
  /\ \A i \in RoutedWrites(c) :
       log[c][i].msg =
         Serialize(Dispatch(routes_, req[c].method, req[c].path, loc[c].body).resp)
  /\ Cardinality(FinalWrites(c)) <= 1 /\ Cardinality(Closes(c)) <= 1

\* the part of the state that belongs to connection c
Conn(c) == <<wire[c], peer[c], pc[c], loc[c], log[c]>>

Blocked(c) == pc[c] \in {"body", "chunk"} /\ wire[c] = <<>> /\ peer[c] = "open"

RegPaths == {P_HEALTH, P_PREDICT}
RegMethods == {"GET", "POST", "OPTIONS"}
RegHandlers == {Named("health"), Named("predict_post")}

\* RouteAdder::operator(): app_.add_route(path_, method_, f)
Register(path, method, h) ==
  /\ routes_' = add_route(routes_, path, method, h)
  /\ UNCHANGED <<alive, req, wire, peer, pc, loc, log>>

NextReg ==
  \E path \in RegPaths, method \in RegMethods, h \in RegHandlers :
    Register(path, method, h)

InitReg ==
  /\ alive = TRUE
  /\ routes_ = <<>>
  /\ req = [c \in Conns |-> NoReq]
  /\ wire = [c \in Conns |-> <<>>]
  /\ peer = [c \in Conns |-> "open"]
  /\ pc = [c \in Conns |-> "idle"]
  /\ loc = [c \in Conns |-> InitLoc]
  /\ log = [c \in Conns |-> <<>>]

SpecReg == InitReg /\ [][NextReg]_vars

TokenOf(m) ==
  CASE m = "GET" -> M_GET
    [] m = "POST" -> M_POST
    [] m = "OPTIONS" -> M_OPTIONS

\* the handler handle_client dispatches to for (path, method); NoHandler
\* when it dispatches to none
Lookup(routes, path, m) == Dispatch(routes, TokenOf(m), path, <<>>).handler

\* C18: whatever has been registered so far, registering h for
\* (path, method) makes h the handler dispatched for that pair, leaves the
\* path with a single route entry (a new one only if the path had none),
\* leaves the handler of every other pair as it was, and registering the
\* same once more changes nothing.
C18_LaterRegistrationWins ==
  \A path \in RegPaths, method \in RegMethods, h \in RegHandlers :
    LET r2 == add_route(routes_, path, method, h)
    IN /\ Lookup(r2, path, method) = h
       /\ Cardinality({i \in DOMAIN r2 : r2[i].path = path}) = 1
       /\ Len(r2) = Len(routes_)
                     + (IF \E i \in DOMAIN routes_ : routes_[i].path = path THEN 0 ELSE 1)
       /\ \A p2 \in RegPaths, m2 \in RegMethods :
            <<p2, m2>> # <<path, method>> => Lookup(r2, p2, m2) = Lookup(routes_, p2, m2)
       /\ add_route(r2, path, method, h) = r2

\* both paths are registered for all three methods: at least six
\* registrations have been made
C18_Witness ==
  /\ Len(routes_) = 2
  /\ \A i \in DOMAIN routes_ : DOMAIN routes_[i].handlers = RegMethods

(***************************************************************************)
(* Chunk terminator and the order of a worker's stages                     *)
(***************************************************************************)
\* C19: when read_chunked_body has returned on a stream in which a chunk
\* payload is followed by two bytes other than CR LF, it has returned the
\* failure value, whether those two bytes were taken from the buffer or
\* read from the socket.
C19_MissingTerminatorFails ==
  \A c \in Conns :
    ( /\ req[c].kind = "badterm" /\ Parsed(c) /\ loc[c].has_chunked
      /\ loc[c].at \in {"done", "fail"} )
    => loc[c].at = "fail"

Reads(c) == {i \in DOMAIN log[c] : log[c][i].ev = "read"}

\* the body framing of c has failed: a chunked decoding failure, or a read
\* of zero or fewer bytes before content_length bytes were there
FramingFailed(c) ==
  \/ loc[c].at = "fail"
  \/ /\ pc[c] = "closed" /\ ~loc[c].has_chunked
     /\ loc[c].already_read < loc[c].content_length

\* C20: on every connection the handler is invoked at most once, after
\* every read and never after a framing failure; the final response is
\* written after the handler call; the close is the last thing done on the
\* connection.
C20_StagesInOrder ==
  \A c \in Conns :
    /\ Cardinality(Calls(c)) <= 1
    /\ \A i \in Calls(c) : \A j \in Reads(c) : j < i
    /\ \A i \in Calls(c) : \A j \in FinalWrites(c) : i < j
    /\ \A i \in Closes(c) : i = Len(log[c])
    /\ FramingFailed(c) => Calls(c) = {}

(***************************************************************************)
(* Progress                                                                *)
(***************************************************************************)
\* C21: once the client has delivered a well-formed request to its last
\* byte and keeps the connection open, the worker is not waiting in a read
\* for bytes beyond the framing boundary (from such a read it would never
\* return, and so never write the final response nor close).
C21_NeverWaitsPastBoundary ==
  \A c \in Conns :
    (WellFormed(req[c]) /\ wire[c] = <<>> /\ peer[c] = "open")
      => pc[c] \notin {"body", "chunk"}

====
